---- MODULE Spec2Model ----
(***************************************************************************)
(* TimelineDropsChart (panel/src/pages/PlayerDropsPage): a React function  *)
(* component that redraws the player-drops timeline from an effect and     *)
(* keeps a local error / retry state.                                      *)
(*                                                                         *)
(* The component's state is modelled as React keeps it: the committed      *)
(* hook state (renderError, errorRetry), the props and theme captured by   *)
(* the last render (cur), the dependency list of the last render (deps),   *)
(* the three refs, the queue of state updates not yet rendered, and the    *)
(* element tree of the last commit (view).  The props the parent holds     *)
(* (props) and the theme (theme) may run ahead of the last render.         *)
(***************************************************************************)
EXTENDS Integers, Sequences, FiniteSets, TLC

VARIABLES
    pc,            \* "unmounted" | "effect" (passive effect pending) | "idle" | "crashed"
    props,         \* props as the parent currently holds them
    theme,         \* current value of useIsDarkMode()
    cur,           \* props and theme captured by the last render
    renderError,   \* useState('')  (line 51)
    errorRetry,    \* useState(0)   (line 52)
    legendRef,     \* legendRef.current is an element
    svgRef,        \* svgRef.current is an element
    canvasRef,     \* canvasRef.current is an element
    deps,          \* dependency list of the last render (<<>> before mount)
    queue,         \* state updates enqueued since the last render
    view,          \* element tree of the last commit
    events,        \* number of external events so far (bounded)
    drawCount,     \* history: invocations of drawDropsTimeline
    lastDraw,      \* history: request and outcome of the last invocation
    evSinceDraw,   \* history: an external event happened since the last invocation
    clicksSinceOk, \* history: Retry clicks since the last normal return of the routine
    drawsSinceRetry, \* history: invocations since the last Retry click, -1 once another
                     \* external event followed that click (or before any click)
    categories,    \* contents of the array passed to ChartLabels
    given,         \* history: contents of that array when it was passed
    legendOut      \* what the last render of ChartLabels produced

vars == <<pc, props, theme, cur, renderError, errorRetry, legendRef, svgRef,
          canvasRef, deps, queue, view, events, drawCount, lastDraw,
          evSinceDraw, clicksSinceOk, drawsSinceRetry,
          categories, given, legendOut>>

legendVars == <<categories, given, legendOut>>

chartVars == <<pc, props, theme, cur, renderError, errorRetry, legendRef, svgRef,
               canvasRef, deps, queue, view, events, drawCount, lastDraw,
               evSinceDraw, clicksSinceOk, drawsSinceRetry>>

\* ---------------------------------------------------------------- bounds
\* External events (parent re-renders, theme changes, Retry clicks, late
\* error reports) in one behaviour.
MaxEvents == 3

\* Longest category list passed to the legend.
MaxCategories == 3

\* ---------------------------------------------------------------- inputs
\* Messages a raised Error may carry (the empty string: an Error without a
\* message), and messages passed to the error-reporting callback.
ThrowMsgs == {"X", ""}
ReportMsgs == {"Y"}

\* chartData objects: `id` stands for the object's identity (Object.is).
ChartDatas ==
    { [id |-> 1, log |-> <<1>>],
      [id |-> 2, log |-> <<1, 2>>],
      [id |-> 3, log |-> <<>>] }

Widths == {-1, 0, 100}
Heights == {-1, 0, 100}

PropsSet == [chartData : ChartDatas, width : Widths, height : Heights]

\* Positive sizes on both sides of the margins (left + right = 50,
\* top + bottom = 32).
SizeWidths == {40, 100}
SizeHeights == {20, 100}

SizePropsSet == [chartData : ChartDatas, width : SizeWidths, height : SizeHeights]

\* Category identifiers a list may hold: the registered ones and one that
\* the registry does not know.
CategoryIds == {"afk", "ban", "idle", "zzz"}

CategoryLists ==
    UNION { [1..n -> CategoryIds] : n \in 0..MaxCategories }

\* Values drawDropsTimeline may raise.
\*   Error     : an Error object, message a string (possibly empty)
\*   value     : a non-nullish value with no `message` property
\*   nullish   : null or undefined
ThrownValues ==
    { [type |-> "Error", message |-> m] : m \in ThrowMsgs }
    \cup { [type |-> "value", message |-> ""], [type |-> "nullish", message |-> ""] }

\* What one invocation of the external routine does: it may call the
\* setRenderError callback of the request while it runs (report = <<m>>), and
\* it returns normally (thrown = <<>>) or raises (thrown = <<v>>).
Outcomes ==
    { [report |-> r, thrown |-> t] :
        r \in {<<>>} \cup { <<m>> : m \in ReportMsgs },
        t \in {<<>>} \cup { <<v>> : v \in ThrownValues } }

\* ---------------------------------------------------------------- program
margins_NarrowLeft == [top |-> 8, right |-> 8, bottom |-> 24, left |-> 24, axis |-> 1]

margins == [top |-> 8, right |-> 8, bottom |-> 24, left |-> 42, axis |-> 1]

\* The category metadata registry (@/lib/playerDropCategories).
playerDropCategories ==
    [c \in {"afk", "ban", "idle"} |->
        CASE c = "afk"  -> [label |-> "AFK",  color |-> "#111", border |-> "#aaa"]
          [] c = "ban"  -> [label |-> "Ban",  color |-> "#222", border |-> "#bbb"]
          [] c = "idle" -> [label |-> "Idle", color |-> "#333", border |-> "#ccc"]]

\* playerDropCategories[catName] is an object (not undefined).
HasEntry(catName) == catName \in DOMAIN playerDropCategories

\* Array.prototype.reverse on the contents s.
Reverse(s) == [i \in 1..Len(s) |-> s[Len(s) + 1 - i]]

\* One legend row (lines 20-36): key / data-category, swatch colours, label
\* text and the empty value slot.
LabelRow(catName) ==
    [category |-> catName,
     color |-> playerDropCategories[catName].color,
     border |-> playerDropCategories[catName].border,
     label |-> playerDropCategories[catName].label \o ":",
     value |-> ""]

NoLegend == [status |-> "none", rows |-> <<>>]

ChartLabels_NoReverse(cats) ==
    IF \E i \in DOMAIN cats : ~HasEntry(cats[i])
    THEN [status |-> "raised", rows |-> <<>>, input |-> cats]
    ELSE [status |-> "rows",
          rows |-> [i \in DOMAIN cats |-> LabelRow(cats[i])],
          input |-> cats]

ChartLabels_SkipUnknown(cats) ==
    LET categoriesReversed == Reverse(cats)
        known == SelectSeq(categoriesReversed, HasEntry)
    IN [status |-> "rows",
        rows |-> [i \in DOMAIN known |-> LabelRow(known[i])],
        input |-> cats]

\* ChartLabels (lines 17-38): rows for the reversed copy of the array; reading
\* a property of an undefined registry entry (lines 25-30) raises a TypeError
\* and the render produces nothing.  `input` is the array's contents after the
\* call: reverse() works on the copy slice() made.
ChartLabels(cats) ==
    LET categoriesReversed == Reverse(cats)
    IN IF \E i \in DOMAIN categoriesReversed : ~HasEntry(categoriesReversed[i])
       THEN [status |-> "raised", rows |-> <<>>, input |-> cats]
       ELSE [status |-> "rows",
             rows |-> [i \in DOMAIN categoriesReversed |->
                          LabelRow(categoriesReversed[i])],
             input |-> cats]

\* JavaScript truthiness of a number (NaN is not modelled).
Truthy(n) == n # 0

NoView == [kind |-> "null", text |-> "", button |-> "",
           svgWidth |-> 0, svgHeight |-> 0, canvasWidth |-> 0, canvasHeight |-> 0]

RetryLabel_AlwaysSuffix(n) == "Retry (" \o ToString(n) \o ")"

\* The Retry button's text (line 103).
RetryLabel(n) == IF Truthy(n) THEN "Retry (" \o ToString(n) \o ")" ELSE "Retry"

RenderOutput_NoErrorBranch(p, err, retry) ==
    IF ~Truthy(p.width) \/ ~Truthy(p.height) THEN NoView
    ELSE [NoView EXCEPT !.kind = "surfaces",
                        !.svgWidth = p.width,
                        !.svgHeight = p.height,
                        !.canvasWidth = p.width - margins.left - margins.right,
                        !.canvasHeight = p.height - margins.top - margins.bottom]

\* The element tree the function body returns (lines 89-144).
RenderOutput(p, err, retry) ==
    IF ~Truthy(p.width) \/ ~Truthy(p.height) THEN NoView
    ELSE IF err # ""
    THEN [NoView EXCEPT !.kind = "error",
                        !.text = "Render Error: " \o err,
                        !.button = RetryLabel(retry)]
    ELSE [NoView EXCEPT !.kind = "surfaces",
                        !.svgWidth = p.width,
                        !.svgHeight = p.height,
                        !.canvasWidth = p.width - margins.left - margins.right,
                        !.canvasHeight = p.height - margins.top - margins.bottom]

RefsAttached_KeptUnderError(v) == v.kind # "null"

\* Whether the commit of tree v attaches the three refs (lines 110, 122, 133).
RefsAttached(v) == v.kind = "surfaces"

\* One queued state update applied to <<renderError, errorRetry>>.
ApplyUpdate(st, u) ==
    CASE u.op = "setRenderError" -> <<u.msg, st[2]>>
      [] u.op = "setErrorRetry"  -> <<st[1], u.n>>
      [] u.op = "incErrorRetry"  -> <<st[1], st[2] + 1>>

RECURSIVE ApplyQueue(_, _)
ApplyQueue(st, q) ==
    IF q = <<>> THEN st ELSE ApplyQueue(ApplyUpdate(st, Head(q)), Tail(q))

SetRenderError(m) == [op |-> "setRenderError", msg |-> m, n |-> 0]
SetErrorRetry(k)  == [op |-> "setErrorRetry", msg |-> "", n |-> k]
IncErrorRetry     == [op |-> "incErrorRetry", msg |-> "", n |-> 0]

RetryUpdates_NoIncrement == <<SetRenderError("")>>

\* The state updates the Retry button's onClick enqueues (lines 98-101).
RetryUpdates == <<IncErrorRetry, SetRenderError("")>>

DepsOf_NoRenderError(p, err) == <<p.chartData, p.width, p.height, p.isDarkMode, "">>

\* The effect's dependency list (line 87); the three ref objects never change.
DepsOf(p, err) == <<p.chartData, p.width, p.height, p.isDarkMode, err>>

EffectRuns_EveryRender(prev, d) == TRUE

\* Whether the effect of a render with dependency list d runs, given the
\* previous render's list (React: on mount, and when an entry differs).
EffectRuns(prev, d) == prev = <<>> \/ prev # d

GuardsPass_NoLogCheck ==
    /\ legendRef /\ svgRef /\ canvasRef
    /\ Truthy(cur.width) /\ Truthy(cur.height)

GuardsPass_NoRefCheck ==
    /\ Truthy(cur.width) /\ Truthy(cur.height)
    /\ Len(cur.chartData.log) # 0

\* The effect's early returns (lines 64-65), negated.
GuardsPass ==
    /\ legendRef /\ svgRef /\ canvasRef
    /\ Truthy(cur.width) /\ Truthy(cur.height)
    /\ Len(cur.chartData.log) # 0

CatchMessage_AlwaysGeneric(v) == "Unknown error."

\* `(error as Error).message ?? 'Unknown error.'` (line 83), for a value
\* whose property read does not itself raise.
CatchMessage(v) == IF v.type = "Error" THEN v.message ELSE "Unknown error."

\* Reading `.message` of null or undefined raises a TypeError inside the
\* catch block.
CatchRaises(v) == v.type = "nullish"

EffectUpdates_NoRetryReset(o) ==
    (IF o.report = <<>> THEN <<>> ELSE <<SetRenderError(o.report[1])>>)
    \o (IF o.thrown = <<>>
        THEN <<SetRenderError("")>>
        ELSE IF CatchRaises(o.thrown[1]) THEN <<>>
        ELSE <<SetRenderError(CatchMessage(o.thrown[1]))>>)

\* The state updates one run of the try/catch enqueues for outcome o
\* (lines 69-83).
EffectUpdates(o) ==
    (IF o.report = <<>> THEN <<>> ELSE <<SetRenderError(o.report[1])>>)
    \o (IF o.thrown = <<>>
        THEN <<SetErrorRetry(0), SetRenderError("")>>
        ELSE IF CatchRaises(o.thrown[1]) THEN <<>>
        ELSE <<SetRenderError(CatchMessage(o.thrown[1]))>>)

NoDraw == [called |-> FALSE, chartData |-> [id |-> 0, log |-> <<>>],
           width |-> 0, height |-> 0, isDarkMode |-> FALSE,
           margins |-> margins, outcome |-> [report |-> <<>>, thrown |-> <<>>],
           errorRetry |-> 0, clean |-> FALSE, prevFailed |-> FALSE,
           canvasWidth |-> 0, canvasHeight |-> 0]

TypeOK ==
    /\ pc \in {"unmounted", "effect", "idle", "crashed"}
    /\ props \in PropsSet
    /\ theme \in BOOLEAN
    /\ renderError \in ThrowMsgs \cup ReportMsgs \cup {"", "Unknown error."}
    /\ errorRetry \in 0..MaxEvents
    /\ legendRef \in BOOLEAN /\ svgRef \in BOOLEAN /\ canvasRef \in BOOLEAN
    /\ events \in 0..MaxEvents
    /\ drawCount \in Nat
    /\ drawsSinceRetry \in -1..(MaxEvents + 1)

\* The state before the first render, with the props drawn from S.
InitWith(S) ==
    /\ pc = "unmounted"
    /\ props \in S
    /\ theme \in BOOLEAN
    /\ cur = [chartData |-> props.chartData, width |-> props.width,
              height |-> props.height, isDarkMode |-> theme]
    /\ renderError = ""
    /\ errorRetry = 0
    /\ legendRef = FALSE /\ svgRef = FALSE /\ canvasRef = FALSE
    /\ deps = <<>>
    /\ queue = <<>>
    /\ view = NoView
    /\ events = 0
    /\ drawCount = 0
    /\ lastDraw = NoDraw
    /\ evSinceDraw = FALSE
    /\ clicksSinceOk = 0
    /\ drawsSinceRetry = -1

\* No array has been passed to ChartLabels.
LegendIdle == categories = <<>> /\ given = <<>> /\ legendOut = NoLegend

Init == InitWith(PropsSet) /\ LegendIdle

InitSizes == InitWith(SizePropsSet) /\ LegendIdle

\* ChartLabels is about to render for a category list.
InitLegend ==
    /\ InitWith({[chartData |-> [id |-> 1, log |-> <<1>>], width |-> 100, height |-> 100]})
    /\ categories \in CategoryLists
    /\ given = categories
    /\ legendOut = NoLegend

Latest_StaleWidth == [chartData |-> props.chartData, width |-> cur.width,
                      height |-> props.height, isDarkMode |-> theme]

Latest == [chartData |-> props.chartData, width |-> props.width,
           height |-> props.height, isDarkMode |-> theme]

\* A render pass and its commit: the function body runs with the latest
\* props, theme and state (queued updates applied in order), the tree is
\* committed, refs are attached or detached, and the effect is scheduled
\* when its dependency list changed.
Render ==
    /\ UNCHANGED legendVars
    /\ \/ pc = "unmounted"
       \/ pc = "idle" /\ (queue # <<>> \/ Latest # cur)
    /\ LET st == ApplyQueue(<<renderError, errorRetry>>, queue)
           v  == RenderOutput(Latest, st[1], st[2])
           d  == DepsOf(Latest, st[1])
       IN /\ renderError' = st[1]
          /\ errorRetry' = st[2]
          /\ cur' = Latest
          /\ view' = v
          /\ legendRef' = RefsAttached(v)
          /\ svgRef' = RefsAttached(v)
          /\ canvasRef' = RefsAttached(v)
          /\ deps' = d
          /\ pc' = IF EffectRuns(deps, d) THEN "effect" ELSE "idle"
    /\ queue' = <<>>
    /\ UNCHANGED <<props, theme, events, drawCount, lastDraw, evSinceDraw,
                   clicksSinceOk, drawsSinceRetry>>

\* The effect callback (lines 63-86).
Effect ==
    /\ pc = "effect"
    /\ UNCHANGED legendVars
    /\ IF GuardsPass
       THEN \E o \in Outcomes :
            /\ drawCount' = drawCount + 1
            /\ lastDraw' = [called |-> TRUE, chartData |-> cur.chartData,
                            width |-> cur.width, height |-> cur.height,
                            isDarkMode |-> cur.isDarkMode, margins |-> margins,
                            outcome |-> o, errorRetry |-> errorRetry,
                            clean |-> (queue = <<>> /\ Latest = cur),
                            prevFailed |-> (lastDraw.outcome.thrown # <<>>),
                            canvasWidth |-> view.canvasWidth,
                            canvasHeight |-> view.canvasHeight]
            /\ evSinceDraw' = FALSE
            /\ drawsSinceRetry' =
                 IF drawsSinceRetry >= 0 THEN drawsSinceRetry + 1 ELSE -1
            /\ clicksSinceOk' = IF o.thrown = <<>> THEN 0 ELSE clicksSinceOk
            /\ queue' = queue \o EffectUpdates(o)
            /\ pc' = IF o.thrown # <<>> /\ CatchRaises(o.thrown[1])
                     THEN "crashed" ELSE "idle"
       ELSE /\ pc' = "idle"
            /\ UNCHANGED <<queue, drawCount, lastDraw, evSinceDraw,
                           clicksSinceOk, drawsSinceRetry>>
    /\ UNCHANGED <<props, theme, cur, renderError, errorRetry, legendRef,
                   svgRef, canvasRef, deps, view, events>>

Mounted == pc \in {"effect", "idle"}

\* The parent re-renders with another value of one prop (a change of several
\* props in one parent render is several of these before the next Render).
ParentRenderIn(S) ==
    /\ Mounted /\ events < MaxEvents
    /\ UNCHANGED legendVars
    /\ \E p \in S \ {props} :
         /\ Cardinality({f \in DOMAIN p : p[f] # props[f]}) = 1
         /\ props' = p
    /\ events' = events + 1
    /\ evSinceDraw' = TRUE
    /\ drawsSinceRetry' = -1
    /\ UNCHANGED <<pc, theme, cur, renderError, errorRetry, legendRef, svgRef,
                   canvasRef, deps, queue, view, drawCount, lastDraw,
                   clicksSinceOk>>

ParentRender == ParentRenderIn(PropsSet)

ParentResize == ParentRenderIn(SizePropsSet)

\* The theme flips.
ThemeChange ==
    /\ Mounted /\ events < MaxEvents
    /\ UNCHANGED legendVars
    /\ theme' = ~theme
    /\ events' = events + 1
    /\ evSinceDraw' = TRUE
    /\ drawsSinceRetry' = -1
    /\ UNCHANGED <<pc, props, cur, renderError, errorRetry, legendRef, svgRef,
                   canvasRef, deps, queue, view, drawCount, lastDraw,
                   clicksSinceOk>>

\* The Retry button's onClick (lines 98-101); the button exists only in the
\* error panel.
RetryClick ==
    /\ Mounted /\ events < MaxEvents
    /\ UNCHANGED legendVars
    /\ view.kind = "error"
    /\ queue' = queue \o RetryUpdates
    /\ events' = events + 1
    /\ evSinceDraw' = TRUE
    /\ clicksSinceOk' = clicksSinceOk + 1
    /\ drawsSinceRetry' = 0
    /\ UNCHANGED <<pc, props, theme, cur, renderError, errorRetry, legendRef,
                   svgRef, canvasRef, deps, view, drawCount, lastDraw>>

\* The routine calls the setRenderError callback it was handed (line 73)
\* after it has returned, e.g. from a listener it installed.
LateReport ==
    /\ Mounted /\ events < MaxEvents
    /\ UNCHANGED legendVars
    /\ drawCount > 0
    /\ \E m \in ReportMsgs : queue' = queue \o <<SetRenderError(m)>>
    /\ events' = events + 1
    /\ evSinceDraw' = TRUE
    /\ drawsSinceRetry' = -1
    /\ UNCHANGED <<pc, props, theme, cur, renderError, errorRetry, legendRef,
                   svgRef, canvasRef, deps, view, drawCount, lastDraw,
                   clicksSinceOk>>

Next == Render \/ Effect \/ ParentRender \/ ThemeChange \/ RetryClick \/ LateReport

Spec == Init /\ [][Next]_vars

\* The same component with every size positive.
NextSizes == Render \/ Effect \/ ParentResize \/ ThemeChange \/ RetryClick \/ LateReport

SpecSizes == InitSizes /\ [][NextSizes]_vars

\* One render of ChartLabels (lines 17-38) for the array passed.
ChartLabelsRender ==
    /\ legendOut.status = "none"
    /\ LET r == ChartLabels(categories)
       IN /\ legendOut' = [status |-> r.status, rows |-> r.rows]
          /\ categories' = r.input
    /\ UNCHANGED given
    /\ UNCHANGED chartVars

NextLegend == ChartLabelsRender

SpecLegend == InitLegend /\ [][NextLegend]_vars

\* ---------------------------------------------------------------- properties
\* Nothing is pending: no render is due and no effect is waiting to run.
Settled == pc = "idle" /\ queue = <<>> /\ Latest = cur

\* The last invocation ran with no update or prop change pending, and no
\* external event has happened since.
Undisturbed == lastDraw.called /\ lastDraw.clean /\ ~evSinceDraw

SurfacesMounted == legendRef /\ svgRef /\ canvasRef

ValidInputs(c) == c.width > 0 /\ c.height > 0 /\ Len(c.chartData.log) > 0

TupleOf(c) == <<c.chartData, c.width, c.height, c.isDarkMode>>

\* The last invocation raised an Error carrying a non-empty message.
RaisedWithMessage ==
    /\ lastDraw.outcome.thrown # <<>>
    /\ lastDraw.outcome.thrown[1].type = "Error"
    /\ lastDraw.outcome.thrown[1].message # ""

\* The last invocation returned normally without reporting anything.
Succeeded == lastDraw.outcome.thrown = <<>> /\ lastDraw.outcome.report = <<>>

\* C1: with the surfaces mounted, a positive size and a non-empty log, a
\* settled component has invoked the drawing routine with the tuple
\* (chartData, width, height, isDarkMode) it settled on, each invocation is a
\* single one, and the routine is not invoked again with the tuple of the
\* previous invocation unless an external event (prop or theme change, Retry,
\* late report) happened in between: the re-render the success path causes by
\* resetting the retry counter does not draw again.
C1_OneDrawPerTuple ==
    /\ [](Settled /\ SurfacesMounted /\ ValidInputs(cur)
            => lastDraw.called /\ TupleOf(lastDraw) = TupleOf(cur))
    /\ [][drawCount' # drawCount
            => /\ drawCount' = drawCount + 1
               /\ (lastDraw.called /\ TupleOf(lastDraw') = TupleOf(lastDraw)
                     => evSinceDraw)]_vars

\* A draw that followed a Retry returned normally, the counter was reset by
\* it, the resulting re-render is over, and no second invocation was made.
C1_Witness ==
    /\ Settled /\ Undisturbed /\ Succeeded /\ SurfacesMounted /\ ValidInputs(cur)
    /\ lastDraw.errorRetry > 0 /\ errorRetry = 0
    /\ drawsSinceRetry = 1

\* C2: when the routine raises an Error with message X at an invocation made
\* with retry counter 0, the component settles in the error panel with
\* renderError = X, text "Render Error: X" and a button reading "Retry".
C2_FirstFailureShown ==
    (Settled /\ Undisturbed /\ RaisedWithMessage /\ lastDraw.errorRetry = 0)
        => /\ renderError = lastDraw.outcome.thrown[1].message
           /\ view.kind = "error"
           /\ view.text = "Render Error: " \o lastDraw.outcome.thrown[1].message
           /\ view.button = "Retry"

C2_Witness ==
    /\ Settled /\ Undisturbed /\ RaisedWithMessage /\ lastDraw.errorRetry = 0
    /\ drawCount = 1 /\ view.kind = "error"

\* C3 (as claimed): a message reported through the callback during the draw
\* and a message raised are treated alike: once the attempt is over and the
\* component has settled, renderError is that message and the error panel shows,
\* also when the routine reports and then returns normally.  Stated for
\* invocations at a positive size.
C3_ReportedLikeRaised ==
    (Settled /\ Undisturbed /\ lastDraw.width > 0 /\ lastDraw.height > 0
       /\ (RaisedWithMessage
           \/ (lastDraw.outcome.thrown = <<>> /\ lastDraw.outcome.report # <<>>)))
        => /\ renderError = (IF lastDraw.outcome.thrown # <<>>
                             THEN lastDraw.outcome.thrown[1].message
                             ELSE lastDraw.outcome.report[1])
           /\ view.kind = "error"

\* C4: a successful draw whose predecessor raised leaves, once settled,
\* renderError empty, the three surfaces displayed and errorRetry = 0.
C4_SuccessAfterFailure ==
    (Settled /\ Undisturbed /\ Succeeded /\ lastDraw.prevFailed)
        => /\ renderError = ""
           /\ errorRetry = 0
           /\ view.kind = "surfaces"
           /\ SurfacesMounted

C4_Witness ==
    /\ Settled /\ Undisturbed /\ Succeeded /\ lastDraw.prevFailed
    /\ lastDraw.errorRetry > 0 /\ drawCount = 2

\* C5: once the queued updates are rendered, errorRetry is the number of Retry
\* clicks since the routine last returned normally (each click adds exactly 1,
\* a failed draw adds nothing), and the error panel's button reads "Retry" for
\* 0 and "Retry (N)" for N > 0.
C5_RetryCounts ==
    queue = <<>> /\ pc # "unmounted"
        => /\ errorRetry = clicksSinceOk
           /\ (view.kind = "error"
                 => /\ renderError # ""
                    /\ view.button = (IF clicksSinceOk = 0 THEN "Retry"
                                      ELSE "Retry (" \o ToString(clicksSinceOk) \o ")"))

\* Two retries, each followed by another failed draw.
C5_Witness ==
    /\ Settled /\ Undisturbed /\ RaisedWithMessage /\ lastDraw.prevFailed
    /\ drawCount = 3 /\ clicksSinceOk = 2
    /\ view.kind = "error" /\ view.button = "Retry (2)"

\* C6: after a Retry click followed by no other external event, with a
\* positive size and a non-empty log, the render that clears the error mounts
\* the surfaces and schedules the effect, and the component settles after
\* exactly one invocation of the routine.
C6_RetryRedrawsOnce ==
    /\ (drawsSinceRetry = 0 /\ queue = <<>> /\ Latest = cur /\ ValidInputs(cur))
         => (pc = "effect" /\ view.kind = "surfaces" /\ SurfacesMounted)
    /\ (Settled /\ drawsSinceRetry >= 0 /\ ValidInputs(cur))
         => drawsSinceRetry = 1

C6_Witness ==
    /\ Settled /\ drawsSinceRetry = 1 /\ ValidInputs(cur)
    /\ TupleOf(cur) = TupleOf(lastDraw) /\ lastDraw.prevFailed

\* C7: while the committed renderError is non-empty, no step invokes the
\* routine, and renderError becomes empty only in a render that applies the
\* updates of a Retry click.
C7_NoAutomaticRetry ==
    [][renderError # ""
         => /\ drawCount' = drawCount
            /\ (renderError' = ""
                  => \E i \in DOMAIN queue : queue[i] = IncErrorRetry)]_vars

\* The error panel is up and the inputs have changed to another drawable
\* tuple since the failed draw, yet no new invocation was made.
C7_Witness ==
    /\ Settled /\ renderError # "" /\ view.kind = "error"
    /\ lastDraw.called /\ evSinceDraw
    /\ ValidInputs(cur) /\ TupleOf(cur) # TupleOf(lastDraw)
    /\ clicksSinceOk = 0 /\ drawCount = 1

\* C8 (as claimed): the routine is never invoked at a size with width <= 0 or
\* height <= 0.
C8_NoDrawAtNonPositiveSize ==
    lastDraw.called => (lastDraw.width > 0 /\ lastDraw.height > 0)

\* C9: while the rendered chartData has an empty log, no step invokes the
\* routine, and the effect's run enqueues no state update (no error is set).
C9_EmptyLogNoDraw ==
    [][Len(cur.chartData.log) = 0
         => /\ drawCount' = drawCount
            /\ lastDraw' = lastDraw
            /\ (pc = "effect" /\ pc' # pc => queue' = queue)]_vars

\* The effect has run for an empty log at a positive size with the surfaces
\* mounted: nothing was drawn and no error is set.
C9_Witness ==
    /\ Settled /\ deps # <<>> /\ Len(cur.chartData.log) = 0
    /\ cur.width > 0 /\ cur.height > 0 /\ SurfacesMounted
    /\ drawCount = 0 /\ renderError = "" /\ view.kind = "surfaces"

\* C10 (as claimed): whatever the routine raises, no exception leaves the
\* effect.  Stated for invocations at a positive size.
C10_NoExceptionEscapes ==
    (lastDraw.called /\ lastDraw.width > 0 /\ lastDraw.height > 0)
        => pc # "crashed"

\* C11 (as claimed): when the routine raises, renderError becomes the raised
\* message if there is a non-empty one and "Unknown error." otherwise, and the
\* error panel shows in both cases.  Stated for invocations at a positive size.
C11_MessageOrGeneric ==
    (Settled /\ Undisturbed /\ lastDraw.outcome.thrown # <<>>
       /\ lastDraw.width > 0 /\ lastDraw.height > 0)
        => /\ renderError =
                (IF lastDraw.outcome.thrown[1].type = "Error"
                      /\ lastDraw.outcome.thrown[1].message # ""
                 THEN lastDraw.outcome.thrown[1].message
                 ELSE "Unknown error.")
           /\ view.kind = "error"

\* C12: in every committed tree at a non-zero size the error panel and the
\* three surfaces exclude each other: with renderError non-empty only the
\* panel is shown and no ref is attached, with renderError empty the three
\* surfaces are mounted and there is no panel.
C12_PanelXorSurfaces ==
    (Mounted /\ cur.width # 0 /\ cur.height # 0)
        => IF renderError # ""
           THEN /\ view.kind = "error"
                /\ ~legendRef /\ ~svgRef /\ ~canvasRef
           ELSE /\ view.kind = "surfaces"
                /\ legendRef /\ svgRef /\ canvasRef
                /\ view.text = "" /\ view.button = ""

\* The panel has replaced surfaces that were mounted for a draw.
C12_Witness ==
    /\ Mounted /\ lastDraw.called /\ renderError # ""
    /\ cur.width > 0 /\ cur.height > 0
    /\ view.kind = "error" /\ ~legendRef /\ ~svgRef /\ ~canvasRef

\* C16: a run of the effect that finds a surface missing, a zero width or
\* height, or an empty log invokes nothing, enqueues no state update and leaves
\* renderError and errorRetry as they were.
C16_UnmetPreconditionIsNoOp ==
    [][(pc = "effect" /\ pc' # pc
          /\ (~legendRef \/ ~svgRef \/ ~canvasRef
                \/ cur.width = 0 \/ cur.height = 0
                \/ Len(cur.chartData.log) = 0))
         => /\ drawCount' = drawCount
            /\ lastDraw' = lastDraw
            /\ queue' = queue
            /\ renderError' = renderError
            /\ errorRetry' = errorRetry
            /\ pc' = "idle"]_vars

\* The effect has run in the error panel (no surface mounted) after a retry
\* that failed again: the message and the count of 1 are still there.
C16_Witness ==
    /\ Settled /\ Undisturbed /\ RaisedWithMessage
    /\ ~legendRef /\ ~svgRef /\ ~canvasRef
    /\ renderError = "X" /\ errorRetry = 1 /\ drawCount = 2

\* C19 (as claimed): two invocations of the routine are always separated by
\* an external event, so that at most one invocation follows the last event.
\* Stated for invocations at a positive size.
C19_AtMostOneDrawWithoutEvent ==
    [][(drawCount' # drawCount /\ lastDraw.called
          /\ lastDraw.width > 0 /\ lastDraw.height > 0
          /\ cur.width > 0 /\ cur.height > 0)
         => evSinceDraw]_vars

\* C19 (amended): the effect does not feed itself.  An invocation made with
\* no update and no input change pending is followed by no other invocation
\* until an external event happens; an invocation made while an update or an
\* input change was already pending may be followed by one more, that of the
\* render which takes the pending change in, and by none after that.
C19_EffectDoesNotFeedItself ==
    [][(drawCount' # drawCount /\ lastDraw.called /\ ~evSinceDraw)
         => (~lastDraw.clean /\ lastDraw'.clean)]_vars

\* The routine failed at mount and again after a Retry; the component is at
\* rest in the error panel.
C19_Witness ==
    /\ Settled /\ Undisturbed /\ lastDraw.outcome.thrown # <<>>
    /\ lastDraw.prevFailed /\ drawCount = 2 /\ events = 1
    /\ view.kind = "error"

\* C13: whenever the canvas is rendered, and at every invocation of the
\* routine, the canvas is (width - 42 - 8) by (height - 8 - 24), and the
\* margins of the request are top 8, right 8, bottom 24, left 42.
C13_RasterInsetByMargins ==
    /\ view.kind = "surfaces"
         => /\ view.canvasWidth = cur.width - 42 - 8
            /\ view.canvasHeight = cur.height - 8 - 24
            /\ view.svgWidth = cur.width /\ view.svgHeight = cur.height
    /\ lastDraw.called
         => /\ lastDraw.canvasWidth = lastDraw.width - 42 - 8
            /\ lastDraw.canvasHeight = lastDraw.height - 8 - 24
            /\ lastDraw.margins.top = 8 /\ lastDraw.margins.right = 8
            /\ lastDraw.margins.bottom = 24 /\ lastDraw.margins.left = 42

C13_Witness ==
    /\ lastDraw.called /\ lastDraw.width = 100 /\ lastDraw.height = 100
    /\ lastDraw.canvasWidth = 50 /\ lastDraw.canvasHeight = 68
    /\ view.kind = "surfaces" /\ cur.width = 100 /\ cur.height = 100

\* C17 (as claimed): at every invocation of the routine the canvas width and
\* height are non-negative: no invocation is made with width < 50 or
\* height < 32.
C17_RasterNonNegative ==
    lastDraw.called
        => /\ lastDraw.canvasWidth >= 0 /\ lastDraw.canvasHeight >= 0
           /\ lastDraw.width >= 50 /\ lastDraw.height >= 32

\* C18: an external event invokes nothing and only leaves work pending; the
\* render that follows reads all inputs as they are then (the final values of
\* however many changes came before it), and the one invocation its effect
\* makes uses exactly the inputs of that render.
C18_ScheduledAndCoalesced ==
    [][/\ events' # events
            => (drawCount' = drawCount /\ lastDraw' = lastDraw /\ pc' = pc
                  /\ cur' = cur)
       /\ (pc # "effect" /\ pc' = "effect")
            => cur' = [chartData |-> props.chartData, width |-> props.width,
                       height |-> props.height, isDarkMode |-> theme]
       /\ drawCount' # drawCount
            => /\ drawCount' = drawCount + 1
               /\ pc = "effect" /\ pc' # "effect"
               /\ TupleOf(lastDraw') = TupleOf(cur)]_vars

\* Data, width and theme have each changed since the only invocation so far
\* (three events, every intermediate combination drawable), and one render
\* has scheduled one effect with the final values.
C18_Witness ==
    /\ pc = "effect" /\ queue = <<>> /\ Latest = cur
    /\ drawCount = 1 /\ events = 3 /\ Succeeded /\ renderError = ""
    /\ SurfacesMounted /\ ValidInputs(cur) /\ ValidInputs(lastDraw)
    /\ cur.chartData # lastDraw.chartData
    /\ cur.width # lastDraw.width
    /\ cur.isDarkMode # lastDraw.isDarkMode

\* C14: for every list of registered identifiers, the empty list included,
\* the legend has one row per element, in the reverse of the given order (for
\* <<"afk", "ban", "idle">>: idle, ban, afk), and the array passed is left as
\* it was.
C14_LegendReversed ==
    (legendOut.status # "none" /\ \A i \in DOMAIN given : HasEntry(given[i]))
        => /\ legendOut.status = "rows"
           /\ Len(legendOut.rows) = Len(given)
           /\ \A i \in 1..Len(given) :
                 legendOut.rows[i].category = given[Len(given) + 1 - i]
           /\ categories = given
           /\ (given = <<"afk", "ban", "idle">>
                 => /\ legendOut.rows[1].category = "idle"
                    /\ legendOut.rows[2].category = "ban"
                    /\ legendOut.rows[3].category = "afk")
           /\ (given = <<>> => legendOut.rows = <<>>)

C14_Witness ==
    /\ legendOut.status = "rows" /\ given = <<"afk", "ban", "idle">>
    /\ Len(legendOut.rows) = 3 /\ legendOut.rows[1].category = "idle"

\* C15: when the list holds an identifier without a registry entry, the
\* render of the legend raises and produces no row at all: no blank row and
\* no list with that row left out.
C15_UnknownCategoryRaises ==
    (legendOut.status # "none" /\ \E i \in DOMAIN given : ~HasEntry(given[i]))
        => /\ legendOut.status = "raised"
           /\ legendOut.rows = <<>>

C15_Witness ==
    /\ legendOut.status = "raised" /\ given = <<"afk", "zzz", "idle">>

====
